---- MODULE Spec2Model ----
(***************************************************************************)
(* Polynomial root finder: the web engine (app.py, solve_method) and the   *)
(* terminal engine (ZOF_CLI.py, solve_loop and its step functions), run on *)
(* the same inputs.                                                        *)
(*                                                                         *)
(* Numbers.  The program computes with floats; the model computes with     *)
(* exact rationals <<n, d>> (d > 0, lowest terms).  An operation whose     *)
(* operands leave the range Lim yields Ovf, and an iteration whose values  *)
(* are not representable is not taken: the model follows a run only while  *)
(* its numbers stay in range (rounding, inf and nan are outside the        *)
(* model).                                                                 *)
(***************************************************************************)
EXTENDS Integers, Sequences, FiniteSets

\* ---------------------------------------------------------------- bounds
MaxIter == 3
CoefBound == 1
GuessBound == 2
BracketCoefBound == 2
BracketGuessBound == 4
Lim == 30000

\* ------------------------------------------------------------- rationals
Ovf == <<0, 0>>
Zero == <<0, 1>>

Mag(n) == IF n < 0 THEN -n ELSE n

RECURSIVE GCD(_, _)
GCD(a, b) == IF b = 0 THEN a ELSE GCD(b, a % b)

Fits(q) == q[2] > 0 /\ q[2] <= Lim /\ Mag(q[1]) <= Lim

Norm(n, d) ==
    LET g == GCD(Mag(n), Mag(d))
        s == IF d < 0 THEN -1 ELSE 1
    IN  <<(s * n) \div g, (s * d) \div g>>

Rat(n) == <<n, 1>>

RAdd(a, b) == IF Fits(a) /\ Fits(b)
              THEN Norm(a[1] * b[2] + b[1] * a[2], a[2] * b[2]) ELSE Ovf
RSub(a, b) == IF Fits(a) /\ Fits(b)
              THEN Norm(a[1] * b[2] - b[1] * a[2], a[2] * b[2]) ELSE Ovf
RMul(a, b) == IF Fits(a) /\ Fits(b)
              THEN Norm(a[1] * b[1], a[2] * b[2]) ELSE Ovf
\* the callers test the divisor against zero first, as the code does
RDiv(a, b) == IF Fits(a) /\ Fits(b) /\ b[1] # 0
              THEN Norm(a[1] * b[2], a[2] * b[1]) ELSE Ovf
RAbs(a) == <<Mag(a[1]), a[2]>>
RLt(a, b) == a[1] * b[2] < b[1] * a[2]
RGe(a, b) == ~RLt(a, b)

\* ------------------------------------------------ polynomial evaluator
RECURSIVE Horner(_, _, _, _)
Horner(c, x, k, result) ==
    IF k > Len(c) THEN result
    ELSE Horner(c, x, k + 1, RAdd(RMul(result, x), c[k]))

eval_poly(c, x) == Horner(c, x, 1, Zero)

get_poly_derivative(c) ==
    LET n == Len(c) - 1
    IN  IF n < 1 THEN <<Zero>>
        ELSE [k \in 1..n |-> RMul(c[k], Rat(n - (k - 1)))]

\* ZOF_CLI.main, the Newton-Raphson setup lambda
cli_derivative(c) == [k \in 1..(Len(c) - 1) |-> RMul(c[k], Rat(Len(c) - 1 - (k - 1)))]

\* ---------------------------------------------------------------- state
None == <<>>
NoMsg == "None"
MsgBracket == "Root not bracketed. f(a) and f(b) must have opposite signs."
MsgSecant == "Division by zero (f(x1) - f(x0) = 0)."
MsgNewton == "Derivative is zero."
MsgModSecant == "Division by zero in Mod Secant."
MsgCalc == "Calculation Error: float division by zero"
MsgMaxIter == "Max iterations reached."

Methods == {"bisection", "regula_falsi", "secant", "newton", "fixed_point",
            "modified_secant"}
Bracketing == {"bisection", "regula_falsi"}

VARIABLES
    arg,           \* the call's arguments: method, coeffs, x0, x1, delta, tol, max_iter
    \* app.solve_method
    pc,            \* "start", "loop", "break", "done", "raised"
    x0, x1,        \* the (reassigned) parameters
    curr_x, prev_x, curr_b, deriv_coeffs,
    i,             \* the for loop's index (0 before the first iteration)
    iterations, root, converged, error_msg,
    \* ZOF_CLI: one menu selection with the same inputs
    cli_pc,        \* "start", "loop", "done", "raised"
    extra,         \* open_method's extra (derivative coefficients or delta)
    state,         \* solve_loop's state
    cli_i,         \* solve_loop's index
    cli_rows,      \* the rows solve_loop printed
    cli_root,      \* solve_loop's root
    cli_out        \* what solve_loop printed last: "none", "bracket", "divzero",
                   \* "converged", "maxiter"

webvars == <<pc, x0, x1, curr_x, prev_x, curr_b, deriv_coeffs, i, iterations,
             root, converged, error_msg>>
clivars == <<cli_pc, extra, state, cli_i, cli_rows, cli_root, cli_out>>
vars == <<arg, webvars, clivars>>

\* ------------------------------------------------------------- inputs
Half == Norm(1, 2)
DefaultDelta == Norm(1, 100)
Tols == {Zero, Half}
Lengths == 1..3
Iters == 0..MaxIter

CoeffLists(bound) == UNION {[1..n -> {Rat(v) : v \in (-bound)..bound}] : n \in Lengths}
Guesses(bound) == {Rat(v) : v \in 0..bound}

ValidBracket(c, a, b) == RLt(RMul(eval_poly(c, a), eval_poly(c, b)), Zero)

\* index(): x1 and delta keep the form's defaults (0 and 0.01) for the methods
\* that do not read them.
Args ==
    {a \in [method : Methods, coeffs : CoeffLists(CoefBound), x0 : Guesses(GuessBound),
            x1 : Guesses(GuessBound), delta : {Half, DefaultDelta}, tol : Tols,
            max_iter : Iters] :
        /\ (a.method \notin (Bracketing \cup {"secant"}) => a.x1 = Zero)
        /\ (a.delta = Half <=> a.method = "modified_secant")}

\* Bracketing runs from a valid bracket, over wider coefficients and guesses.
BracketArgs ==
    {a \in [method : Bracketing, coeffs : CoeffLists(BracketCoefBound),
            x0 : Guesses(BracketGuessBound), x1 : Guesses(BracketGuessBound),
            delta : {DefaultDelta}, tol : Tols, max_iter : {MaxIter}] :
        ValidBracket(a.coeffs, a.x0, a.x1)}

Start ==
    /\ pc = "start"
    /\ x0 = arg.x0 /\ x1 = arg.x1
    /\ curr_x = None /\ prev_x = None /\ curr_b = None /\ deriv_coeffs = <<>>
    /\ i = 0
    /\ iterations = <<>> /\ root = None /\ converged = FALSE /\ error_msg = NoMsg
    /\ cli_pc = "start" /\ extra = <<>> /\ state = <<>> /\ cli_i = 0
    /\ cli_rows = <<>> /\ cli_root = None /\ cli_out = "none"

Init == arg \in Args /\ Start

InitBracket == arg \in BracketArgs /\ Start

\* ------------------------------------------------ solve_method (app.py)
InRange(S) == \A q \in S : Fits(q)

\* lines 34-45
Setup ==
    /\ pc = "start"
    /\ pc' = "loop"
    /\ curr_x' = x0 /\ prev_x' = x0 /\ curr_b' = x1
    /\ deriv_coeffs' = IF arg.method = "newton" THEN get_poly_derivative(arg.coeffs)
                       ELSE <<>>
    /\ UNCHANGED <<arg, x0, x1, i, iterations, root, converged, error_msg, clivars>>

\* a continue where the code breaks: the failed step is retried
FatalContinues(msg) ==
    /\ error_msg' = msg /\ pc' = "loop" /\ i' = i + 1
    /\ UNCHANGED <<iterations, root, converged>>

\* error_msg = ...; break (no row is appended)
Fatal(msg) ==
    /\ error_msg' = msg /\ pc' = "break" /\ i' = i + 1
    /\ UNCHANGED <<iterations, root, converged>>

\* the break taken before the row is appended
ConvergeNoRow(row, x) ==
    /\ root' = x /\ converged' = TRUE /\ pc' = "break" /\ i' = i + 1
    /\ UNCHANGED <<iterations, error_msg>>

\* root = x; converged = True; iterations.append(row); break
Converge(row, x) ==
    /\ root' = x /\ converged' = TRUE /\ iterations' = Append(iterations, row)
    /\ pc' = "break" /\ i' = i + 1
    /\ UNCHANGED error_msg

\* fall through to iterations.append(row) at the end of the loop body
Continue(row) ==
    /\ iterations' = Append(iterations, row) /\ pc' = "loop" /\ i' = i + 1
    /\ UNCHANGED <<root, converged, error_msg>>

BisectionConverged(fx_mid, error, tol) == RLt(RAbs(fx_mid), tol) \/ RLt(error, tol)

RegulaFalsiConverged(fx_new, error, tol) == RLt(RAbs(fx_new), tol)

StepConverged(error, tol) == RLt(error, tol)

\* the half without the sign change is kept
KeepLeftSwapped(fa, fx) == RLt(Zero, RMul(fa, fx))

KeepLeft(fa, fx) == RLt(RMul(fa, fx), Zero)

\* In the method steps, \E v \in {e} : ... names the value of e (a local of the code).

Bisection ==
    \E fa \in {eval_poly(arg.coeffs, x0)}, fb \in {eval_poly(arg.coeffs, x1)} :
        /\ InRange({fa, fb})
        /\ IF RGe(RMul(fa, fb), Zero)
           THEN Fatal(MsgBracket) /\ UNCHANGED <<x0, x1>>
           ELSE \E x_mid \in {RDiv(RAdd(x0, x1), Rat(2))} :
                \E fx_mid \in {eval_poly(arg.coeffs, x_mid)},
                   error \in {RAbs(RSub(x1, x0))} :
                \E row \in {[iter |-> i + 1, a |-> x0, b |-> x1, x_val |-> x_mid,
                             f_x |-> fx_mid, error |-> error]} :
                    /\ InRange({x_mid, fx_mid, error})
                    /\ IF BisectionConverged(fx_mid, error, arg.tol)
                       THEN Converge(row, x_mid) /\ UNCHANGED <<x0, x1>>
                       ELSE /\ Continue(row)
                            /\ IF KeepLeft(fa, fx_mid)
                               THEN x1' = x_mid /\ x0' = x0
                               ELSE x0' = x_mid /\ x1' = x1
        /\ UNCHANGED <<curr_x, prev_x>>

RegulaFalsiError(x_new, k) ==
    IF k > 1 THEN RAbs(RSub(x_new, prev_x)) ELSE RAbs(RSub(x1, x0))

RegulaFalsi ==
    \E fa \in {eval_poly(arg.coeffs, x0)}, fb \in {eval_poly(arg.coeffs, x1)} :
        /\ InRange({fa, fb})
        /\ IF RGe(RMul(fa, fb), Zero)
           THEN Fatal(MsgBracket) /\ UNCHANGED <<x0, x1, prev_x>>
           ELSE IF RSub(fb, fa) = Zero
           THEN \* ZeroDivisionError, caught by the except clause
                Fatal(MsgCalc) /\ UNCHANGED <<x0, x1, prev_x>>
           ELSE \E x_new \in {RDiv(RSub(RMul(x0, fb), RMul(x1, fa)), RSub(fb, fa))} :
                \E fx_new \in {eval_poly(arg.coeffs, x_new)},
                   error \in {RegulaFalsiError(x_new, i + 1)} :
                \E row \in {[iter |-> i + 1, a |-> x0, b |-> x1, x_val |-> x_new,
                             f_x |-> fx_new, error |-> error]} :
                    /\ InRange({x_new, fx_new, error})
                    /\ IF RegulaFalsiConverged(fx_new, error, arg.tol)
                       THEN Converge(row, x_new) /\ UNCHANGED <<x0, x1, prev_x>>
                       ELSE /\ Continue(row)
                            /\ IF KeepLeft(fa, fx_new)
                               THEN x1' = x_new /\ x0' = x0
                               ELSE x0' = x_new /\ x1' = x1
                            /\ prev_x' = x_new
        /\ UNCHANGED curr_x

Secant ==
    \E f0 \in {eval_poly(arg.coeffs, x0)}, f1 \in {eval_poly(arg.coeffs, x1)} :
        /\ InRange({f0, f1, RSub(f1, f0)})
        /\ IF RSub(f1, f0) = Zero
           THEN Fatal(MsgSecant) /\ UNCHANGED <<x0, x1>>
           ELSE \E x2 \in {RSub(x1, RDiv(RMul(f1, RSub(x1, x0)), RSub(f1, f0)))} :
                \E error \in {RAbs(RSub(x2, x1))}, f2 \in {eval_poly(arg.coeffs, x2)} :
                \E row \in {[iter |-> i + 1, x_prev |-> x0, x_curr |-> x1,
                             x_val |-> x2, f_x |-> f2, error |-> error]} :
                    /\ InRange({x2, error, f2})
                    /\ IF StepConverged(error, arg.tol)
                       THEN Converge(row, x2) /\ UNCHANGED <<x0, x1>>
                       ELSE Continue(row) /\ x0' = x1 /\ x1' = x2
        /\ UNCHANGED <<curr_x, prev_x>>

Newton ==
    \E fx \in {eval_poly(arg.coeffs, curr_x)}, dfx \in {eval_poly(deriv_coeffs, curr_x)} :
        /\ InRange({fx, dfx})
        /\ IF dfx = Zero
           THEN Fatal(MsgNewton) /\ UNCHANGED curr_x
           ELSE \E x_next \in {RSub(curr_x, RDiv(fx, dfx))} :
                \E error \in {RAbs(RSub(x_next, curr_x))} :
                \E row \in {[iter |-> i + 1, x_curr |-> curr_x, f_x |-> fx,
                             df_x |-> dfx, x_val |-> x_next, error |-> error]} :
                    /\ InRange({x_next, error})
                    /\ IF StepConverged(error, arg.tol)
                       THEN Converge(row, x_next) /\ UNCHANGED curr_x
                       ELSE Continue(row) /\ curr_x' = x_next
        /\ UNCHANGED <<x0, x1, prev_x>>

FixedPoint ==
    \E x_next \in {eval_poly(arg.coeffs, curr_x)} :
    \E error \in {RAbs(RSub(x_next, curr_x))} :
    \E row \in {[iter |-> i + 1, x_curr |-> curr_x, x_val |-> x_next,
                 error |-> error]} :
        /\ InRange({x_next, error})
        /\ IF StepConverged(error, arg.tol)
           THEN Converge(row, x_next) /\ UNCHANGED curr_x
           ELSE Continue(row) /\ curr_x' = x_next
        /\ UNCHANGED <<x0, x1, prev_x>>

ModifiedSecant ==
    \E fx \in {eval_poly(arg.coeffs, curr_x)},
       fx_delta \in {eval_poly(arg.coeffs, RAdd(curr_x, RMul(arg.delta, curr_x)))} :
    \E denom \in {RSub(fx_delta, fx)} :
        /\ InRange({fx, fx_delta, denom})
        /\ IF denom = Zero
           THEN Fatal(MsgModSecant) /\ UNCHANGED curr_x
           ELSE \E x_next \in {RSub(curr_x, RDiv(RMul(RMul(arg.delta, curr_x), fx),
                                                  denom))} :
                \E error \in {RAbs(RSub(x_next, curr_x))} :
                \E row \in {[iter |-> i + 1, x_curr |-> curr_x, f_x |-> fx,
                             x_val |-> x_next, error |-> error]} :
                    /\ InRange({x_next, error})
                    /\ IF StepConverged(error, arg.tol)
                       THEN Converge(row, x_next) /\ UNCHANGED curr_x
                       ELSE Continue(row) /\ curr_x' = x_next
        /\ UNCHANGED <<x0, x1, prev_x>>

\* lines 47-189: one iteration of the for loop
SolveIter ==
    /\ pc = "loop" /\ i < arg.max_iter
    /\ CASE arg.method = "bisection" -> Bisection
         [] arg.method = "regula_falsi" -> RegulaFalsi
         [] arg.method = "secant" -> Secant
         [] arg.method = "newton" -> Newton
         [] arg.method = "fixed_point" -> FixedPoint
         [] arg.method = "modified_secant" -> ModifiedSecant
    /\ UNCHANGED <<arg, curr_b, deriv_coeffs, clivars>>

\* the estimate of the last row is not picked up
SolveReturnNoRoot ==
    /\ pc = "break" \/ (pc = "loop" /\ i >= arg.max_iter)
    /\ IF ~converged /\ error_msg = NoMsg
       THEN IF iterations = <<>>
            THEN pc' = "raised" /\ UNCHANGED <<root, error_msg>>
            ELSE error_msg' = MsgMaxIter /\ pc' = "done" /\ UNCHANGED root
       ELSE pc' = "done" /\ UNCHANGED <<root, error_msg>>
    /\ UNCHANGED <<arg, x0, x1, curr_x, prev_x, curr_b, deriv_coeffs, i, iterations,
                   converged, clivars>>

\* lines 191-195: the loop is over (exhausted, or left by break)
SolveReturn ==
    /\ pc = "break" \/ (pc = "loop" /\ i >= arg.max_iter)
    /\ IF ~converged /\ error_msg = NoMsg
       THEN IF iterations = <<>>
            THEN \* iterations[-1] on the empty list: IndexError leaves solve_method
                 pc' = "raised" /\ UNCHANGED <<root, error_msg>>
            ELSE /\ root' = iterations[Len(iterations)].x_val
                 /\ error_msg' = MsgMaxIter
                 /\ pc' = "done"
       ELSE pc' = "done" /\ UNCHANGED <<root, error_msg>>
    /\ UNCHANGED <<arg, x0, x1, curr_x, prev_x, curr_b, deriv_coeffs, i, iterations,
                   converged, clivars>>

\* ------------------------------------------------ terminal engine (ZOF_CLI.py)
\* bracketing_method lines 46-51, open_method lines 65-69, secant_wrapper 80-82:
\* the inputs are read, the bracket is checked once, extra is set up
CliStart ==
    /\ cli_pc = "start"
    /\ IF arg.method \in Bracketing
       THEN IF RGe(RMul(eval_poly(arg.coeffs, arg.x0), eval_poly(arg.coeffs, arg.x1)), Zero)
            THEN cli_out' = "bracket" /\ cli_pc' = "done" /\ UNCHANGED <<state, extra>>
            ELSE /\ state' = [a |-> arg.x0, b |-> arg.x1]
                 /\ cli_pc' = "loop" /\ UNCHANGED <<cli_out, extra>>
       ELSE /\ cli_pc' = "loop" /\ UNCHANGED cli_out
            /\ state' = IF arg.method = "secant" THEN [x0 |-> arg.x0, x1 |-> arg.x1]
                        ELSE [x |-> arg.x0]
            /\ extra' = CASE arg.method = "newton" -> cli_derivative(arg.coeffs)
                          [] arg.method = "modified_secant" -> arg.delta
                          [] OTHER -> <<>>
    /\ UNCHANGED <<arg, webvars, cli_i, cli_rows, cli_root>>

\* solve_loop lines 30-32: step_func raised ZeroDivisionError
ZeroDivision ==
    /\ cli_out' = "divzero" /\ cli_pc' = "done" /\ cli_i' = cli_i + 1
    /\ UNCHANGED <<state, cli_rows, cli_root>>

LoopConverged(err, f_val, tol) == RLt(err, tol) \/ RLt(f_val, tol)

\* solve_loop lines 34-41, with what step_func returned
Stepped(new_state, row, err, rt) ==
    \E f_val \in {RAbs(eval_poly(arg.coeffs, rt))} :
        /\ InRange({err, rt, f_val})
        /\ cli_rows' = Append(cli_rows, [iter |-> cli_i + 1, row |-> row,
                                         err |-> err, root |-> rt])
        /\ cli_root' = rt /\ cli_i' = cli_i + 1
        /\ IF LoopConverged(err, f_val, arg.tol)
           THEN cli_out' = "converged" /\ cli_pc' = "done" /\ UNCHANGED state
           ELSE state' = new_state /\ cli_pc' = "loop" /\ UNCHANGED cli_out

\* main's calc_x lambdas
calc_x(method, a, b, fa, fb) ==
    IF method = "bisection" THEN RDiv(RAdd(a, b), Rat(2))
    ELSE RDiv(RSub(RMul(a, fb), RMul(b, fa)), RSub(fb, fa))

\* bracketing_method.step
BracketingStep ==
    \E a \in {state.a}, b \in {state.b} :
    \E fa \in {eval_poly(arg.coeffs, a)}, fb \in {eval_poly(arg.coeffs, b)} :
        /\ InRange({fa, fb})
        /\ IF arg.method = "regula_falsi" /\ RSub(fb, fa) = Zero
           THEN ZeroDivision
           ELSE \E xm \in {calc_x(arg.method, a, b, fa, fb)} :
                \E fxm \in {eval_poly(arg.coeffs, xm)}, width \in {RAbs(RSub(b, a))} :
                    /\ InRange({xm, fxm, width})
                    /\ Stepped(IF KeepLeft(fa, fxm) THEN [a |-> a, b |-> xm]
                               ELSE [a |-> xm, b |-> b],
                               <<a, b, xm, fxm, width>>, width, xm)

\* secant_wrapper.step
SecantStep ==
    \E f0 \in {eval_poly(arg.coeffs, state.x0)}, f1 \in {eval_poly(arg.coeffs, state.x1)} :
        /\ InRange({f0, f1, RSub(f1, f0)})
        /\ IF RSub(f1, f0) = Zero
           THEN ZeroDivision
           ELSE \E x2 \in {RSub(state.x1, RDiv(RMul(f1, RSub(state.x1, state.x0)),
                                               RSub(f1, f0)))} :
                \E err \in {RAbs(RSub(x2, state.x1))} :
                    /\ InRange({x2, err})
                    /\ Stepped([x0 |-> state.x1, x1 |-> x2],
                               <<state.x0, state.x1, x2, err>>, err, x2)

\* open_method.step, given xn = step_logic(c, x, extra)
OpenStep(x_n) ==
    \E xn \in {x_n} :
    \E err \in {RAbs(RSub(xn, state.x))} :
        /\ InRange({xn, err})
        /\ Stepped([x |-> xn], <<state.x, xn, err>>, err, xn)

\* main's step_logic lambdas
NewtonStep ==
    \E fx \in {eval_poly(arg.coeffs, state.x)}, dfx \in {eval_poly(extra, state.x)} :
        /\ InRange({fx, dfx})
        /\ IF dfx = Zero THEN ZeroDivision
           ELSE OpenStep(RSub(state.x, RDiv(fx, dfx)))

FixedPointStep == OpenStep(eval_poly(arg.coeffs, state.x))

ModifiedSecantStep ==
    \E x \in {state.x} :
    \E fx \in {eval_poly(arg.coeffs, x)} :
    \E denom \in {RSub(eval_poly(arg.coeffs, RAdd(x, RMul(extra, x))), fx)} :
        /\ InRange({fx, denom})
        /\ IF denom = Zero THEN ZeroDivision
           ELSE OpenStep(RSub(x, RDiv(RMul(RMul(extra, x), fx), denom)))

\* solve_loop lines 27-41: one iteration
CliIter ==
    /\ cli_pc = "loop" /\ cli_i < arg.max_iter
    /\ CASE arg.method \in Bracketing -> BracketingStep
         [] arg.method = "secant" -> SecantStep
         [] arg.method = "newton" -> NewtonStep
         [] arg.method = "fixed_point" -> FixedPointStep
         [] arg.method = "modified_secant" -> ModifiedSecantStep
    /\ UNCHANGED <<arg, webvars, extra>>

\* solve_loop line 42: the loop ran out
CliReturn ==
    /\ cli_pc = "loop" /\ cli_i >= arg.max_iter
    /\ IF cli_i = 0
       THEN \* root was never bound: UnboundLocalError leaves solve_loop
            cli_pc' = "raised" /\ UNCHANGED cli_out
       ELSE cli_pc' = "done" /\ cli_out' = "maxiter"
    /\ UNCHANGED <<arg, webvars, extra, state, cli_i, cli_rows, cli_root>>

Next ==
    \/ Setup
    \/ SolveIter
    \/ SolveReturn
    \/ CliStart
    \/ CliIter
    \/ CliReturn

Spec == Init /\ [][Next]_vars

SpecBracket == InitBracket /\ [][Next]_vars

\* ---------------------------------------------------------------- properties
Last(seq) == seq[Len(seq)]
TolPositive == RLt(Zero, arg.tol)
FatalMsgs == {MsgBracket, MsgSecant, MsgNewton, MsgModSecant}
ValidStart == arg.method \in Bracketing /\ ValidBracket(arg.coeffs, arg.x0, arg.x1)

StrictlyBetween(x, a, b) == (RLt(a, x) /\ RLt(x, b)) \/ (RLt(b, x) /\ RLt(x, a))
\* (a2, b2) is (a, b) with one endpoint moved strictly inward
Narrowed(a, b, a2, b2) ==
    \/ a2 = a /\ StrictlyBetween(b2, a, b)
    \/ b2 = b /\ StrictlyBetween(a2, a, b)

\* C1: with tol > 0, a row whose error is below tol, or (bisection, regula falsi)
\* whose |f(x_new)| is below tol, is the last row of its run, and the run ended
\* converged with that row's estimate as root; in solve_method and in solve_loop.
C1_StopsWithinTolerance ==
    TolPositive =>
      /\ \A k \in 1..Len(iterations) :
            LET r == iterations[k]
            IN  (RLt(r.error, arg.tol)
                   \/ (arg.method \in Bracketing /\ RLt(RAbs(r.f_x), arg.tol)))
                => (k = Len(iterations) /\ converged /\ root = r.x_val)
      /\ \A k \in 1..Len(cli_rows) :
            LET r == cli_rows[k]
            IN  (RLt(r.err, arg.tol)
                   \/ (arg.method \in Bracketing /\ RLt(RAbs(r.row[4]), arg.tol)))
                => (k = Len(cli_rows) /\ cli_out = "converged" /\ cli_root = r.root)

\* C2: bisection and regula falsi from a valid bracket with tol > 0: at the head
\* of every iteration the bracket has a sign change, and after every non-terminal
\* step it is the previous bracket with one endpoint moved strictly inward to the
\* step's estimate; in solve_method and in bracketing_method.step.
C2_BracketNarrows ==
    (ValidStart /\ TolPositive) =>
      /\ pc = "loop" => ValidBracket(arg.coeffs, x0, x1)
      /\ (pc = "loop" /\ iterations # <<>>) =>
            LET r == Last(iterations)
            IN  /\ Narrowed(r.a, r.b, x0, x1)
                /\ r.x_val \in {x0, x1}
      /\ error_msg # MsgBracket
      /\ cli_pc = "loop" => ValidBracket(arg.coeffs, state.a, state.b)
      /\ (cli_pc = "loop" /\ cli_rows # <<>>) =>
            LET r == Last(cli_rows).row
            IN  /\ Narrowed(r[1], r[2], state.a, state.b)
                /\ r[3] \in {state.a, state.b}
      /\ cli_out # "bracket"

\* a bisection from a valid bracket, two steps on in both engines, in which both
\* endpoints have moved
C2_Witness ==
    /\ ValidStart /\ TolPositive /\ arg.method = "bisection"
    /\ pc = "loop" /\ Len(iterations) = 2 /\ x0 # arg.x0 /\ x1 # arg.x1
    /\ cli_pc = "loop" /\ Len(cli_rows) = 2

\* C3: bisection and regula falsi from a valid bracket: the error of each row is
\* at most the error of the row before it; in solve_method's trace and in the
\* rows of solve_loop.
C3_ErrorNonIncreasing ==
    ValidStart =>
      /\ \A k \in 1..(Len(iterations) - 1) :
            ~RLt(iterations[k].error, iterations[k + 1].error)
      /\ \A k \in 1..(Len(cli_rows) - 1) :
            ~RLt(cli_rows[k].err, cli_rows[k + 1].err)

\* C4 as stated: the returned trace has at most max_iter rows and its length is
\* the iteration index i at which the loop stopped, however it stopped.
C4_LengthIsStopIndex ==
    pc = "done" => (Len(iterations) <= arg.max_iter /\ Len(iterations) = i)

\* C4 amended: the returned trace has at most max_iter rows; its length is i when
\* the loop stopped by convergence at iteration i or by exhaustion at i = max_iter,
\* and i - 1 when a fatal error was detected at iteration i.
C4_TraceLength ==
    pc = "done" =>
      /\ Len(iterations) <= arg.max_iter
      /\ converged => Len(iterations) = i
      /\ error_msg = MsgMaxIter => (Len(iterations) = i /\ i = arg.max_iter)
      /\ error_msg \in (FatalMsgs \cup {MsgCalc}) => Len(iterations) = i - 1
      /\ converged \/ error_msg \in (FatalMsgs \cup {MsgCalc, MsgMaxIter})

\* a zero derivative met at the second iteration, and a run converged at the second
C4_Witness ==
    /\ pc = "done" /\ i = 2
    /\ \/ error_msg = MsgNewton /\ Len(iterations) = 1
       \/ converged /\ arg.method = "secant"

\* the fatal condition of the method holds for the current state
FatalCondition ==
    CASE arg.method \in Bracketing ->
            RGe(RMul(eval_poly(arg.coeffs, x0), eval_poly(arg.coeffs, x1)), Zero)
      [] arg.method = "secant" ->
            RSub(eval_poly(arg.coeffs, x1), eval_poly(arg.coeffs, x0)) = Zero
      [] arg.method = "newton" -> eval_poly(deriv_coeffs, curr_x) = Zero
      [] arg.method = "modified_secant" ->
            RSub(eval_poly(arg.coeffs, RAdd(curr_x, RMul(arg.delta, curr_x))),
                 eval_poly(arg.coeffs, curr_x)) = Zero
      [] OTHER -> FALSE

\* C5: an iteration of solve_method that meets its method's fatal condition
\* (f(a)*f(b) >= 0, or a zero denominator) leaves the loop at once with error_msg
\* set, no row appended, root None and converged false, and that is what is
\* returned: the trace holds the i - 1 rows of the steps before the failed one.
C5_FatalStopsAtOnce ==
    /\ [][(pc = "loop" /\ i' = i + 1 /\ FatalCondition) =>
            (/\ pc' = "break" /\ error_msg' \in FatalMsgs
             /\ iterations' = iterations /\ root' = None /\ ~converged')]_vars
    /\ [](error_msg \in FatalMsgs =>
            (/\ pc \in {"break", "done"} /\ root = None /\ ~converged
             /\ Len(iterations) = i - 1))

\* a division by zero met after at least one completed step: the run has returned
C5_Witness ==
    /\ pc = "done" /\ error_msg \in {MsgSecant, MsgNewton, MsgModSecant}
    /\ i >= 2 /\ Len(iterations) = i - 1

\* C6: a run of solve_method with max_iter >= 1 that ends without convergence and
\* without a fatal condition returns converged = false, the max-iterations
\* message, the last row's estimate as root, and max_iter rows numbered 1..max_iter.
C6_Exhaustion ==
    (/\ pc \in {"done", "raised"} /\ arg.max_iter >= 1
     /\ ~converged /\ error_msg \notin (FatalMsgs \cup {MsgCalc})) =>
      /\ pc = "done" /\ error_msg = MsgMaxIter
      /\ Len(iterations) = arg.max_iter
      /\ root = Last(iterations).x_val
      /\ \A k \in 1..Len(iterations) : iterations[k].iter = k

\* an exhausted run of MaxIter rows whose estimate changed on the way
C6_Witness ==
    /\ pc = "done" /\ error_msg = MsgMaxIter /\ ~converged
    /\ Len(iterations) = MaxIter /\ root # iterations[1].x_val

\* C7: solve_method returns normally for every max_iter, zero and negative
\* included: the loop runs at most max_iter times and no exception leaves it.
C7_ReturnsNormally ==
    /\ pc # "raised"
    /\ i <= (IF arg.max_iter > 0 THEN arg.max_iter ELSE 0)

\* C8: a fixed point run reports convergence only when the step |x_next - x_curr|
\* of its last row is below tol; in solve_method and in solve_loop.
C8_FixedPointStepOnly ==
    arg.method = "fixed_point" =>
      /\ converged => RLt(Last(iterations).error, arg.tol)
      /\ cli_out = "converged" => RLt(Last(cli_rows).err, arg.tol)

WebOutcome ==
    IF converged THEN "converged"
    ELSE IF error_msg = MsgMaxIter THEN "maxiter"
    ELSE IF error_msg = MsgBracket THEN "bracket"
    ELSE "divzero"

\* C9: with tol > 0 and max_iter >= 1, the two engines end the same way on the
\* same inputs: the same outcome after the same number of rows, the same root
\* estimate, and the same estimate and error in every row.
C9_SameEngine ==
    (TolPositive /\ arg.max_iter >= 1 /\ pc = "done" /\ cli_pc = "done") =>
      /\ WebOutcome = cli_out
      /\ Len(iterations) = Len(cli_rows)
      /\ \A k \in 1..Len(iterations) :
            k <= Len(cli_rows) =>
              /\ iterations[k].x_val = cli_rows[k].root
              /\ iterations[k].error = cli_rows[k].err
      /\ (cli_out \in {"converged", "maxiter"} => root = cli_root)

\* the derivative's coefficients as C10 states them
DerivativeAsStated(c) ==
    LET n == Len(c) - 1
    IN  IF n = 0 THEN <<Zero>> ELSE [k \in 1..n |-> RMul(c[k], Rat(n - (k - 1)))]

\* C10: the derivative coefficients Newton-Raphson uses are, for degree n >= 1,
\* the n coefficients c[i]*(n-i), and for degree 0 the single coefficient 0; in
\* get_poly_derivative and in the terminal engine's derivative lambda.
C10_DerivativeCoefficients ==
    arg.method = "newton" =>
      /\ pc # "start" => deriv_coeffs = DerivativeAsStated(arg.coeffs)
      /\ cli_pc # "start" => extra = DerivativeAsStated(arg.coeffs)

====
